---- MODULE Spec2Model ----
(***************************************************************************)
(* Model of rootpy/datasets.py: get_sample(name, periods), the resolver    *)
(* that validates a sample directory, parses meta.xml, classifies the      *)
(* sample and aggregates the data files of its candidate directories.      *)
(* One call of get_sample is modelled, statement group by statement group. *)
(* The filesystem is read-only; what each filesystem call answers is       *)
(* chosen when the call is made.                                           *)
(***************************************************************************)
EXTENDS Integers, Sequences, FiniteSets, TLC

VARIABLES name, periods, pc, log, meta, datatype, classname, weight,
          treename, classtype, actualdirs, files, samplename, runs, i, result

vars == <<name, periods, pc, log, meta, datatype, classname, weight,
          treename, classtype, actualdirs, files, samplename, runs, i, result>>

-----------------------------------------------------------------------------
(* Bounds of the model *)

\* largest number of subdirectories the sample root holds
MaxDirs == 3
\* largest number of labels in a period filter
MaxPeriods == 2

-----------------------------------------------------------------------------
(* Values *)

\* Python's None (the absent result)
None == [kind |-> "None"]
\* a name that has not been assigned yet
Unbound == [kind |-> "unbound"]
\* a Python str / int value held by a variable that holds both over time
PyStr(s) == [str |-> s]
PyInt(n) == [int |-> n]
\* the optional argument periods: None, or a list of labels
NoPeriods == [given |-> FALSE, labels |-> <<>>]
Periods(ls) == [given |-> TRUE, labels |-> ls]

Range(f) == {f[x] : x \in DOMAIN f}
SeqToSet(s) == {s[k] : k \in 1..Len(s)}
\* the sequences of distinct elements of S of length at most n
InjSeqs(S, n) ==
  UNION {{s \in [1..k -> S] : \A a, b \in 1..k : a # b => s[a] # s[b]} : k \in 0..n}

-----------------------------------------------------------------------------
(* Module-level tables *)

classes == [BACKGROUND |-> 0, SIGNAL |-> 1]

types == [DATA |-> 0, MC |-> 1]

\* each period's xrange(start, stop), kept as <<start, stop>>
data_periods ==
  [AB |-> <<152166, 155161>>,
   C  |-> <<155228, 156683>>,
   D  |-> <<158045, 159225>>,
   E  |-> <<160387, 161949>>,
   F  |-> <<162347, 162883>>,
   G  |-> <<165591, 166384>>,
   H  |-> <<166466, 166965>>]

\* runnumber in xrange(start, stop)
InXrangeClosed(n, rng) == rng[1] <= n /\ n <= rng[2]
InXrange(n, rng) == rng[1] <= n /\ n < rng[2]

-----------------------------------------------------------------------------
(* The filesystem under DATAROOT/<name> that the call may find *)

\* basenames of the children the sample root may hold
DirA0  == "group10.perf-tau.00153000.physics_L1Calo.r1299.01-01-04.D3PD_StreamD3PD_TauSMALL"
DirA2  == "group10.perf-tau.00153000.physics_L1Calo.r1299.01-01-04.D3PD.2_StreamD3PD_TauSMALL"
DirA02 == "group10.perf-tau.153000.physics_L1Calo.r1299.01-01-04.D3PD.02_StreamD3PD_TauMEDIUM"
DirB   == "group10.perf-tau.00155161.physics_L1Calo.r1299.01-01-04.D3PD_StreamD3PD_TauMEDIUM"
DirN   == "group10.perf-tau.00160000.physics_L1Calo.r1299.01-01-04.D3PD_StreamD3PD_TauSMALL"
DirE   == "group10.perf-tau.00160387.physics_L1Calo.r1299.01-01-04.D3PD.1_StreamD3PD_TauSMALL"
DirX   == "group10.perf-tau.mc09_7TeV.105009.J0.e468.D3PD_StreamD3PD_TauSMALL"
MetaXml == "meta.xml"

\* the children that are directories (os.path.isdir)
SubDirs == {DirA0, DirA2, DirA02, DirB, DirN, DirE, DirX}
isdir(child) == child \in SubDirs

\* file names, as character sequences
FileARoot1 == <<"a", ".", "r", "o", "o", "t", ".", "1">>
FileBTxt   == <<"b", ".", "t", "x", "t">>
FileCRootX == <<"c", "_", "r", "o", "o", "t", "_", "x">>
FileHidden == <<".", "r", "o", "o", "t", "r", "c">>
FileUpper  == <<"d", ".", "R", "O", "O", "T">>

\* os.listdir of each subdirectory
ListDir(dir) ==
  CASE dir = DirA0  -> <<FileARoot1, FileBTxt>>
    [] dir = DirA2  -> <<FileARoot1, FileCRootX>>
    [] dir = DirA02 -> <<FileCRootX, FileHidden>>
    [] dir = DirB   -> <<FileBTxt, FileARoot1>>
    [] dir = DirN   -> <<FileARoot1>>
    [] dir = DirE   -> <<FileUpper, FileCRootX>>
    [] dir = DirX   -> <<FileARoot1>>
    [] OTHER        -> <<>>

\* os.path.join(dir, file)
Path(dir, file) == [dir |-> dir, file |-> file]

\* fnmatch of a file name against '*root*' as glob applies it: the name holds
\* "root" and, the pattern not starting with a dot, the name does not either
MatchesRoot(f) ==
  /\ Len(f) > 0
  /\ f[1] # "."
  /\ \E k \in 1..(Len(f) - 3) : SubSeq(f, k, k + 3) = <<"r", "o", "o", "t">>

RECURSIVE PathsOf(_, _)
PathsOf(dir, fs) ==
  IF fs = <<>> THEN <<>>
  ELSE (IF MatchesRoot(Head(fs)) THEN <<Path(dir, Head(fs))>> ELSE <<>>)
       \o PathsOf(dir, Tail(fs))

\* glob.glob(os.path.join(dir, '*root*'))
GlobRoot(dir) == PathsOf(dir, ListDir(dir))

\* the lists glob.glob(os.path.join(base, '*')) may return: meta.xml, which
\* exists when this line is reached, and some subdirectories, in any order
Listings ==
  {s \in InjSeqs(SubDirs \cup {MetaXml}, MaxDirs + 1) : MetaXml \in SeqToSet(s)}

-----------------------------------------------------------------------------
(* Directory names: datapattern, and int() of a captured group *)

NoMatch == [matched |-> FALSE]
Match(run, edition) == [matched |-> TRUE, run |-> run, edition |-> edition]
\* the optional edition group did not take part in the match
NoGroup == <<>>

\* re.match(datapattern, datasetname): the captured digits of run and edition
datapattern(datasetname) ==
  CASE datasetname = DirA0  -> Match(<<0, 0, 1, 5, 3, 0, 0, 0>>, NoGroup)
    [] datasetname = DirA2  -> Match(<<0, 0, 1, 5, 3, 0, 0, 0>>, <<2>>)
    [] datasetname = DirA02 -> Match(<<1, 5, 3, 0, 0, 0>>, <<0, 2>>)
    [] datasetname = DirB   -> Match(<<0, 0, 1, 5, 5, 1, 6, 1>>, NoGroup)
    [] datasetname = DirN   -> Match(<<0, 0, 1, 6, 0, 0, 0, 0>>, NoGroup)
    [] datasetname = DirE   -> Match(<<0, 0, 1, 6, 0, 3, 8, 7>>, <<1>>)
    [] OTHER                -> NoMatch

\* int(digits)
RECURSIVE int(_)
int(ds) == IF ds = <<>> THEN 0 ELSE 10 * int(SubSeq(ds, 1, Len(ds) - 1)) + ds[Len(ds)]

-----------------------------------------------------------------------------
(* meta.xml *)

\* str.upper of the type and class texts the documents hold
upper(s) ==
  CASE s = "data"   -> "DATA"
    [] s = "Mc"     -> "MC"
    [] s = "signal" -> "SIGNAL"
    [] OTHER        -> s

\* float(eval(text)): the value as a fraction; a text that is no expression raises
EvalRaises(text) == text \notin {"0.1*1.5"}
EvalFloat(text) == [num |-> 15, den |-> 100]

\* the documents minidom.parse may yield
MetaDocs ==
  [type   : {"data", "Mc", "FOO"},
   class  : {"signal", "BACKGROUND", "BAR"},
   weight : {"0.1*1.5"},
   tree   : {"tauPerf"}]
  \cup
  [type : {"data"}, class : {"signal"}, weight : {"lumi"}, tree : {"tauPerf"}]

Malformed == [kind |-> "malformed"]

\* lines 48-53 raise: the file is no well-formed document of the expected
\* shape, or its weight text does not evaluate
ParseRaises(doc) == doc = Malformed \/ EvalRaises(doc.weight)

-----------------------------------------------------------------------------
(* The accumulation loop of the DATA branch *)

EmptyRuns == [r \in {} |-> Unbound]
Put(d, k, v) == [r \in DOMAIN d \cup {k} |-> IF r = k THEN v ELSE d[r]]

\* the scan of the period filter for one run number (lines 94-101):
\* "return" at an undefined label, else whether a listed period holds the run
RECURSIVE ScanPeriods(_, _)
ScanPeriods(labels, runnumber) ==
  IF labels = <<>> THEN "notinperiod"
  ELSE IF Head(labels) \notin DOMAIN data_periods THEN "return"
  ELSE IF InXrange(runnumber, data_periods[Head(labels)]) THEN "inperiod"
  ELSE ScanPeriods(Tail(labels), runnumber)

\* edition > runs[runnumber]['edition']
NewerOrSame(edition, stored) == edition >= stored
Always(edition, stored) == TRUE
Newer(edition, stored) == edition > stored

\* a basename that datapattern does not match: a warning is printed (line 90)
NoMatchReturns(rs) == [returned |-> TRUE, runs |-> rs]
NoMatchStep(rs) == [returned |-> FALSE, runs |-> rs]

\* one pass of the loop body for dir, lines 87-112: whether get_sample
\* returns None in it, and the run-edition map after it
Body(rs, dir, prds) ==
  LET match == datapattern(dir)
      runnumber == int(match.run)
      scan == IF prds.given THEN ScanPeriods(prds.labels, runnumber) ELSE "inperiod"
      edition == IF match.edition # NoGroup THEN int(match.edition) ELSE 0
      entry == [edition |-> edition, dir |-> dir]
  IN  IF ~match.matched THEN NoMatchStep(rs)
      ELSE IF scan = "return" THEN [returned |-> TRUE, runs |-> rs]
      ELSE IF scan = "notinperiod" THEN [returned |-> FALSE, runs |-> rs]
      ELSE IF runnumber \in DOMAIN rs
        THEN IF Newer(edition, rs[runnumber].edition)
               THEN [returned |-> FALSE, runs |-> Put(rs, runnumber, entry)]
               ELSE [returned |-> FALSE, runs |-> rs]
        ELSE [returned |-> FALSE, runs |-> Put(rs, runnumber, entry)]

\* the whole loop over a list of directories, stopping at a return
RECURSIVE Loop(_, _, _)
Loop(rs, ds, prds) ==
  IF ds = <<>> THEN [returned |-> FALSE, runs |-> rs]
  ELSE LET step == Body(rs, Head(ds), prds)
       IN  IF step.returned THEN step ELSE Loop(step.runs, Tail(ds), prds)

\* the orders in which runs.items() may yield the keys
Orders(S) == {s \in [1..Cardinality(S) -> S] : \A a, b \in DOMAIN s : a # b => s[a] # s[b]}

\* lines 113-114: the files of the chosen directory of every run, in key order
RECURSIVE FilesOfRuns(_, _)
FilesOfRuns(rs, order) ==
  IF order = <<>> THEN <<>>
  ELSE GlobRoot(rs[Head(order)].dir) \o FilesOfRuns(rs, Tail(order))

\* lines 118-119: the files of every directory, in list order
RECURSIVE FilesOfDirs(_)
FilesOfDirs(ds) ==
  IF ds = <<>> THEN <<>> ELSE GlobRoot(Head(ds)) \o FilesOfDirs(Tail(ds))

\* "".join(labels)
RECURSIVE Join(_)
Join(labels) == IF labels = <<>> THEN "" ELSE Head(labels) \o Join(Tail(labels))

\* lines 115-116: the sample name after the DATA branch
SuffixWheneverGiven(nm, prds) ==
  IF prds.given THEN nm \o "_" \o Join(prds.labels) ELSE nm
SuffixedName(nm, prds) ==
  IF prds.given /\ prds.labels # <<>> THEN nm \o "_" \o Join(prds.labels) ELSE nm

\* line 75: datatype = types[datatype]
KeepType(dt) == PyStr(dt)
LookupType(dt) == PyInt(types[dt])

\* line 120
Dataset(nm, dt, ct, tn, w, fs) ==
  [kind |-> "Dataset", name |-> nm, datatype |-> dt, classtype |-> ct,
   treename |-> tn, weight |-> w, files |-> fs]

\* an exception that leaves get_sample
Raised(exc) == [kind |-> "raised", exc |-> exc]

-----------------------------------------------------------------------------
(* The call *)

SampleNames == {"tau"}
Labels == {"AB", "E", "ZZ"}
PeriodArgs == {NoPeriods} \cup {Periods(ls) : ls \in InjSeqs(Labels, MaxPeriods)}

Init ==
  /\ name \in SampleNames
  /\ periods \in PeriodArgs
  /\ pc = "isdir"
  /\ log = <<>>
  /\ meta = Unbound
  /\ datatype = Unbound
  /\ classname = Unbound
  /\ weight = Unbound
  /\ treename = Unbound
  /\ classtype = Unbound
  /\ actualdirs = <<>>
  /\ files = <<>>
  /\ samplename = Unbound
  /\ runs = EmptyRuns
  /\ i = 0
  /\ result = Unbound

\* get_sample returns v
Return(v) == result' = v /\ pc' = "done"

\* lines 39-42, with the print of line 41 not followed by a return
IsDirFallsThrough ==
  /\ pc = "isdir"
  /\ \E exists \in BOOLEAN :
       /\ log' = Append(log, <<"isdir", exists>>)
       /\ pc' = "isfile"
       /\ result' = result
  /\ UNCHANGED <<name, periods, meta, datatype, classname, weight, treename,
                 classtype, actualdirs, files, samplename, runs, i>>

\* lines 39-42: os.path.isdir(base)
IsDir ==
  /\ pc = "isdir"
  /\ \E exists \in BOOLEAN :
       /\ log' = Append(log, <<"isdir", exists>>)
       /\ IF exists THEN pc' = "isfile" /\ result' = result ELSE Return(None)
  /\ UNCHANGED <<name, periods, meta, datatype, classname, weight, treename,
                 classtype, actualdirs, files, samplename, runs, i>>

\* lines 43-46: os.path.isfile(metafile)
IsFile ==
  /\ pc = "isfile"
  /\ \E exists \in BOOLEAN :
       /\ log' = Append(log, <<"isfile", exists>>)
       /\ IF exists THEN pc' = "parse" /\ result' = result ELSE Return(None)
  /\ UNCHANGED <<name, periods, meta, datatype, classname, weight, treename,
                 classtype, actualdirs, files, samplename, runs, i>>

\* lines 47-56: the metadata is parsed; anything raised inside is caught
Parse ==
  /\ pc = "parse"
  /\ \E doc \in MetaDocs \cup {Malformed} :
       /\ log' = Append(log, <<"parse", ~ParseRaises(doc)>>)
       /\ IF ParseRaises(doc)
            THEN /\ Return(None)
                 /\ UNCHANGED <<meta, datatype, classname, weight, treename>>
            ELSE /\ meta' = doc
                 /\ datatype' = PyStr(upper(doc.type))
                 /\ classname' = upper(doc.class)
                 /\ weight' = EvalFloat(doc.weight)
                 /\ treename' = doc.tree
                 /\ pc' = "classes"
                 /\ result' = result
  /\ UNCHANGED <<name, periods, classtype, actualdirs, files, samplename, runs, i>>

\* lines 57-66: the class is looked up
CheckClass ==
  /\ pc = "classes"
  /\ IF classname \notin DOMAIN classes
       THEN Return(None) /\ classtype' = classtype
       ELSE classtype' = PyInt(classes[classname]) /\ pc' = "types" /\ result' = result
  /\ UNCHANGED <<name, periods, log, meta, datatype, classname, weight, treename,
                 actualdirs, files, samplename, runs, i>>

\* lines 67-75: the type is looked up; an undefined type is reported, and
\* line 75 then raises KeyError
CheckType ==
  /\ pc = "types"
  /\ IF datatype.str \notin DOMAIN types
       THEN Return(Raised("KeyError")) /\ datatype' = datatype
       ELSE datatype' = LookupType(datatype.str) /\ pc' = "glob" /\ result' = result
  /\ UNCHANGED <<name, periods, log, meta, classname, weight, treename, classtype,
                 actualdirs, files, samplename, runs, i>>

\* lines 76-85: the children of the sample root are listed, the directories
\* among them kept, and the branch chosen by the datatype
Glob ==
  /\ pc = "glob"
  /\ \E dirs \in Listings :
       /\ log' = Append(log, <<"glob", TRUE>>)
       /\ actualdirs' = SelectSeq(dirs, isdir)
  /\ files' = <<>>
  /\ samplename' = name
  /\ IF datatype = PyInt(types.DATA)
       THEN runs' = EmptyRuns /\ i' = 1 /\ pc' = "loop"
       ELSE runs' = runs /\ i' = i /\ pc' = "mc"
  /\ UNCHANGED <<name, periods, meta, datatype, classname, weight, treename,
                 classtype, result>>

\* lines 86-112, one pass: the next directory is examined
Step ==
  /\ pc = "loop"
  /\ i <= Len(actualdirs)
  /\ LET step == Body(runs, actualdirs[i], periods)
     IN  IF step.returned
           THEN Return(None) /\ UNCHANGED <<runs, i>>
           ELSE runs' = step.runs /\ i' = i + 1 /\ pc' = pc /\ result' = result
  /\ UNCHANGED <<name, periods, log, meta, datatype, classname, weight, treename,
                 classtype, actualdirs, files, samplename>>

\* lines 113-116 followed by lines 118-119, as if the else of line 117 were missing
ItemsThenAllDirs ==
  /\ pc = "loop"
  /\ i > Len(actualdirs)
  /\ \E order \in Orders(DOMAIN runs) :
       files' = files \o FilesOfRuns(runs, order) \o FilesOfDirs(actualdirs)
  /\ samplename' = SuffixedName(samplename, periods)
  /\ pc' = "return"
  /\ UNCHANGED <<name, periods, log, meta, datatype, classname, weight, treename,
                 classtype, actualdirs, runs, i, result>>

\* lines 113-116: the loop is over; the files of the chosen directories are
\* collected and the sample name is suffixed
Items ==
  /\ pc = "loop"
  /\ i > Len(actualdirs)
  /\ \E order \in Orders(DOMAIN runs) :
       files' = files \o FilesOfRuns(runs, order)
  /\ samplename' = SuffixedName(samplename, periods)
  /\ pc' = "return"
  /\ UNCHANGED <<name, periods, log, meta, datatype, classname, weight, treename,
                 classtype, actualdirs, runs, i, result>>

\* lines 117-119: the files of every directory are collected
AllDirs ==
  /\ pc = "mc"
  /\ files' = files \o FilesOfDirs(actualdirs)
  /\ pc' = "return"
  /\ UNCHANGED <<name, periods, log, meta, datatype, classname, weight, treename,
                 classtype, actualdirs, samplename, runs, i, result>>

\* line 120
Finish ==
  /\ pc = "return"
  /\ Return(Dataset(samplename, datatype, classtype, treename, weight, files))
  /\ UNCHANGED <<name, periods, log, meta, datatype, classname, weight, treename,
                 classtype, actualdirs, files, samplename, runs, i>>

Next ==
  \/ IsDir
  \/ IsFile
  \/ Parse
  \/ CheckClass
  \/ CheckType
  \/ Glob
  \/ Step
  \/ Items
  \/ AllDirs
  \/ Finish

Spec == Init /\ [][Next]_vars

-----------------------------------------------------------------------------
(* Vocabulary of the properties *)

Returned == pc = "done"
ReturnedDataset == pc = "done" /\ result.kind = "Dataset"
\* the sample passed the classifier as a DATA sample
DataSample == datatype = PyInt(types.DATA)

Valid(dir) == datapattern(dir).matched
RunOf(dir) == int(datapattern(dir).run)
EditionOf(dir) ==
  IF datapattern(dir).edition = NoGroup THEN 0 ELSE int(datapattern(dir).edition)

\* the run lies in the half-open range of a listed, defined period
InListedPeriod(run) ==
  \E k \in 1..Len(periods.labels) :
    /\ periods.labels[k] \in DOMAIN data_periods
    /\ data_periods[periods.labels[k]][1] <= run
    /\ run < data_periods[periods.labels[k]][2]
PassedFilter(dir) == ~periods.given \/ InListedPeriod(RunOf(dir))
AllLabelsDefined == \A k \in 1..Len(periods.labels) : periods.labels[k] \in DOMAIN data_periods

\* the accumulation loop ran to its end
LoopOver ==
  /\ DataSample
  /\ \/ pc = "loop" /\ i > Len(actualdirs)
     \/ pc = "return"
     \/ ReturnedDataset

Max(S) == CHOOSE x \in S : \A y \in S : y <= x
Min(S) == CHOOSE x \in S : \A y \in S : x <= y
DirsOfFiles(fs) == {fs[k].dir : k \in 1..Len(fs)}
WinnerFiles(rs) == UNION {SeqToSet(GlobRoot(rs[r].dir)) : r \in DOMAIN rs}

\* what a run of the loop over the list ds leaves get_sample to return:
\* None, or the set of files of the chosen directories
Outcome(ds) ==
  LET end == Loop(EmptyRuns, ds, periods)
  IN  IF end.returned THEN [none |-> TRUE, files |-> {}]
      ELSE [none |-> FALSE, files |-> WinnerFiles(end.runs)]
Observed == [none |-> result = None, files |-> IF result = None THEN {} ELSE SeqToSet(result.files)]

-----------------------------------------------------------------------------
(* Properties *)

\* C1: when the metadata parses and the upper-cased class is no key of classes
\* or the upper-cased type is no key of types, get_sample returns None (it
\* neither raises nor returns a Dataset).
C1_UnknownVocabularyReturnsNone ==
  (/\ Returned
   /\ meta # Unbound
   /\ (upper(meta.class) \notin DOMAIN classes \/ upper(meta.type) \notin DOMAIN types))
  => result = None

\* C2: for a DATA sample, after the accumulation loop every run maps to one
\* directory, the one of highest edition (absent edition = 0) among the validly
\* named directories of that run that passed the period filter, the first
\* listed among those of that edition; the files come from these directories.
C2_HighestEditionFirstSeenWins ==
  LoopOver =>
    LET passed == {k \in 1..Len(actualdirs) : Valid(actualdirs[k]) /\ PassedFilter(actualdirs[k])}
        ofRun(r) == {k \in passed : RunOf(actualdirs[k]) = r}
        best(r) == Max({EditionOf(actualdirs[k]) : k \in ofRun(r)})
        first(r) == Min({k \in ofRun(r) : EditionOf(actualdirs[k]) = best(r)})
    IN  /\ DOMAIN runs = {RunOf(actualdirs[k]) : k \in passed}
        /\ \A r \in DOMAIN runs :
             /\ runs[r].dir = actualdirs[first(r)]
             /\ runs[r].edition = best(r)
        /\ pc \in {"return", "done"} =>
             /\ DirsOfFiles(files) \subseteq {runs[r].dir : r \in DOMAIN runs}
             /\ SeqToSet(files) = WinnerFiles(runs)
        /\ ReturnedDataset => result.files = files

C2_Witness ==
  /\ ReturnedDataset
  /\ DataSample
  /\ actualdirs = <<DirA0, DirA2, DirA02>>
  /\ DirsOfFiles(result.files) = {DirA2}

\* C3: for a DATA sample resolved with a period filter whose labels are all
\* defined, a validly named directory that the loop has examined has its run
\* in the run-edition map exactly when the run lies in the half-open range of a
\* listed period, and no file comes from a directory whose run does not.
C3_KeptIffInListedPeriod ==
  (/\ DataSample
   /\ periods.given
   /\ AllLabelsDefined
   /\ pc \in {"loop", "return", "done"})
  =>
    /\ \A k \in 1..Len(actualdirs) :
         (k < i /\ Valid(actualdirs[k])) =>
           (RunOf(actualdirs[k]) \in DOMAIN runs <=> InListedPeriod(RunOf(actualdirs[k])))
    /\ \A d \in DirsOfFiles(files) : Valid(d) /\ InListedPeriod(RunOf(d))
    /\ Returned => result.kind = "Dataset" /\ result.files = files

C3_Witness ==
  /\ ReturnedDataset
  /\ DataSample
  /\ periods = Periods(<<"AB">>)
  /\ actualdirs = <<DirN, DirA0>>
  /\ RunOf(DirA0) = 153000 /\ RunOf(DirN) = 160000
  /\ result.files = <<Path(DirA0, FileARoot1)>>

\* C4: for a DATA sample, a period filter holding a label that is no key of
\* the period table makes get_sample return None, whatever the candidate
\* directories and wherever the label stands in the filter.
C4_UndefinedPeriodReturnsNone ==
  (/\ Returned
   /\ DataSample
   /\ periods.given
   /\ ~AllLabelsDefined)
  => result = None

\* C5 as stated: the name of the Dataset of a DATA sample is the requested name
\* immediately followed by the concatenated period labels when a filter is
\* supplied, and the requested name otherwise.
C5_NameIsBasePlusLabels ==
  (ReturnedDataset /\ DataSample) =>
    result.name = (IF periods.given THEN name \o Join(periods.labels) ELSE name)

\* C5 as amended: the name of the Dataset of a DATA sample is the requested
\* name, an underscore and the concatenated period labels in the order given
\* when a non-empty filter is supplied; with no filter or an empty one it is
\* the requested name.
C5_NameIsBaseUnderscoreLabels ==
  (ReturnedDataset /\ DataSample) =>
    /\ (periods.given /\ Len(periods.labels) > 0) =>
         result.name = name \o "_" \o Join(periods.labels)
    /\ (~periods.given \/ Len(periods.labels) = 0) => result.name = name

C5_Witness ==
  /\ ReturnedDataset
  /\ DataSample
  /\ periods = Periods(<<"AB", "E">>)
  /\ result.name = "tau_ABE"

\* C6: every Dataset returned has as datatype a value of the types table and as
\* classtype a value of the classes table, the codes looked up from the
\* upper-cased metadata strings, never the strings.
C6_CodesFromTables ==
  ReturnedDataset =>
    /\ result.datatype \in {PyInt(v) : v \in Range(types)}
    /\ result.classtype \in {PyInt(v) : v \in Range(classes)}
    /\ result.datatype = PyInt(types[upper(meta.type)])
    /\ result.classtype = PyInt(classes[upper(meta.class)])

C6_Witness ==
  /\ ReturnedDataset
  /\ meta.type = "Mc" /\ meta.class = "BACKGROUND"
  /\ result.datatype = PyInt(1) /\ result.classtype = PyInt(0)

\* C7: the stages run in order and short-circuit: when the sample root is no
\* directory nothing else is read and None is returned; when meta.xml is no
\* file the metadata is not parsed, no directory is listed and None is returned.
C7_StagesShortCircuit ==
  /\ \A k \in 1..Len(log) : log[k][1] = <<"isdir", "isfile", "parse", "glob">>[k]
  /\ (Len(log) >= 1 /\ ~log[1][2]) =>
       /\ Len(log) = 1
       /\ Returned /\ result = None
       /\ meta = Unbound /\ actualdirs = <<>> /\ files = <<>>
  /\ (Len(log) >= 2 /\ ~log[2][2]) =>
       /\ Len(log) = 2
       /\ Returned /\ result = None
       /\ meta = Unbound /\ actualdirs = <<>> /\ files = <<>>

C7_Witness ==
  /\ Returned
  /\ log = <<<<"isdir", TRUE>>, <<"isfile", FALSE>>>>
  /\ result = None

\* C8: no file path occurs twice in the files of a returned Dataset.
C8_NoDuplicateFiles ==
  ReturnedDataset =>
    \A a, b \in 1..Len(result.files) : a # b => result.files[a] # result.files[b]

C8_Witness ==
  /\ ReturnedDataset
  /\ DataSample
  /\ \E a, b \in 1..Len(result.files) :
       /\ result.files[a].dir # result.files[b].dir
       /\ result.files[a].file = result.files[b].file

\* C9: for a DATA sample, what get_sample returns is what it returns with the
\* invalidly named directories removed from the sample root: None in both
\* cases, or Datasets with the same files, none of them from such a directory.
C9_InvalidNamesAreSkipped ==
  (Returned /\ DataSample) =>
    LET without == Outcome(SelectSeq(actualdirs, Valid))
    IN  /\ result = None \/ result.kind = "Dataset"
        /\ Observed = without
        /\ \A f \in Observed.files : Valid(f.dir)
        /\ result.kind = "Dataset" => Len(result.files) = Cardinality(without.files)

C9_Witness ==
  /\ ReturnedDataset
  /\ DataSample
  /\ \E k \in 1..Len(actualdirs) : ~Valid(actualdirs[k]) /\ GlobRoot(actualdirs[k]) # <<>>
  /\ result.files # <<>>

\* C10: for a DATA sample in which no two validly named directories have the
\* same run and the same edition, what get_sample returns (None, or the set of
\* files) is the same for every order of the candidate directories.
C10_OrderIndependentWithoutTies ==
  (/\ Returned
   /\ DataSample
   /\ \A a, b \in 1..Len(actualdirs) :
        (a # b /\ Valid(actualdirs[a]) /\ Valid(actualdirs[b])) =>
          ~(/\ RunOf(actualdirs[a]) = RunOf(actualdirs[b])
            /\ EditionOf(actualdirs[a]) = EditionOf(actualdirs[b])))
  => \A order \in Orders(SeqToSet(actualdirs)) : Outcome(order) = Observed

C10_Witness ==
  /\ ReturnedDataset
  /\ DataSample
  /\ actualdirs = <<DirA2, DirE, DirA0>>
  /\ DirsOfFiles(result.files) = {DirA2, DirE}

====
